---- MODULE Spec2Model ----
(***************************************************************************)
(* A model of qiling/hw/intc/nvic.py: the NVIC peripheral (register block, *)
(* enable/pending operations, pending queue, per-tick dispatcher and the   *)
(* byte-wise register I/O).                                                *)
(*                                                                         *)
(* A 32-bit value (a c_uint32 register word, a CPU register, a value on    *)
(* the bus) is represented by the set of positions of its 1-bits, so that  *)
(* |, &, ^, << and >> are computed bit by bit, at full width.              *)
(***************************************************************************)
EXTENDS Integers, Sequences, FiniteSets

(* ------------------------------ bounds -------------------------------- *)

\* Longest pending queue explored (set_pending is not called beyond it).
MaxQueue == 2

\* Interrupt numbers the operations are called with: bit 0 of word 0, a bit
\* at position 5 of word 0, and the last bit of the last word.
IrqSample == {0, 5, 255}

\* System exceptions the operations are called with (SysTick).
SysSample == {-1}

IrqInputs == IrqSample \cup SysSample

(* --------------------------- bit arithmetic --------------------------- *)

RECURSIVE BitsFrom(_, _)
BitsFrom(n, pos) ==
    IF n = 0 THEN {}
    ELSE (IF n % 2 = 1 THEN {pos} ELSE {}) \cup BitsFrom(n \div 2, pos + 1)

\* The bits of a non-negative integer.
BitsOf(n) == BitsFrom(n, 0)

RECURSIVE Pow2(_)
Pow2(k) == IF k = 0 THEN 1 ELSE 2 * Pow2(k - 1)

RECURSIVE ValOf(_)
\* The integer a set of bit positions stands for (only used below 2^31).
ValOf(w) ==
    IF w = {} THEN 0
    ELSE LET b == CHOOSE x \in w : TRUE IN Pow2(b) + ValOf(w \ {b})

BitOr(a, b)  == a \cup b
BitAnd(a, b) == a \cap b
BitXor(a, b) == (a \ b) \cup (b \ a)
Shl(w, k)    == {b + k : b \in w}
Shr(w, k)    == {b - k : b \in {x \in w : x >= k}}

\* Storing into a ctypes c_uint32 keeps the low 32 bits.
U32(w) == {b \in w : b < 32}

\* int.bit_length()
BitLength(n) == IF n = 0 THEN 0 ELSE 1 + CHOOSE m \in BitsOf(n) : \A x \in BitsOf(n) : x <= m

(* --------------------------- register block --------------------------- *)

\* Words per bit-plane (ctypes.c_uint32 * 8) and bytes per word.
PLANE_WORDS == 8
WORD_BYTES  == 4

\* Field.size of a bit-plane, in bytes.
PLANE_SIZE == PLANE_WORDS * WORD_BYTES

\* Byte offsets of the fields of NVIC.Type, laid out in declaration order.
ISER_OFS == 0
ICER_OFS == ISER_OFS + PLANE_SIZE + 24 * WORD_BYTES
ISPR_OFS == ICER_OFS + PLANE_SIZE + 24 * WORD_BYTES
ICPR_OFS == ISPR_OFS + PLANE_SIZE + 24 * WORD_BYTES
IABR_OFS == ICPR_OFS + PLANE_SIZE + 24 * WORD_BYTES
IPR_OFS  == IABR_OFS + PLANE_SIZE + 56 * WORD_BYTES
IPR_SIZE == 240
STIR_OFS == IPR_OFS + IPR_SIZE + 644 * WORD_BYTES
NVIC_SIZE == STIR_OFS + PLANE_SIZE

IRQN_MAX == PLANE_SIZE * 8
MASK     == IRQN_MAX \div PLANE_WORDS - 1
OFFSET   == BitLength(MASK)

\* IRQn >> self.OFFSET and IRQn & self.MASK, tabulated for the numbers whose word
\* lies inside a plane (a ctypes array rejects any other index).
WordIndexTab == [n \in 0 .. IRQN_MAX - 1 |-> ValOf(Shr(BitsOf(n), OFFSET))]
BitIndexTab  == [n \in 0 .. IRQN_MAX - 1 |-> ValOf(BitAnd(BitsOf(n), BitsOf(MASK)))]

WordIndex(IRQn) == WordIndexTab[IRQn]
BitIndex(IRQn)  == BitIndexTab[IRQn]

\* 1 << b and MASK ^ (1 << b), for a bit index b.
OneShl     == [b \in 0 .. MASK |-> Shl(BitsOf(1), b)]
MaskXorShl == [b \in 0 .. MASK |-> BitXor(BitsOf(MASK), Shl(BitsOf(1), b))]

ZeroPlane == [w \in 0 .. PLANE_WORDS - 1 |-> {}]

(* ------------------------------- state -------------------------------- *)

VARIABLES
    ISER, ICER, ISPR, ICPR, \* self.nvic bit-planes: word index -> set of 1-bits
    raw,                    \* self.nvic bytes outside the four planes: offset -> byte
    intrs,                  \* self.intrs, the pending queue
    sysEnable, sysPending,  \* ql.hw.sysctrl: enabled / pending system exceptions
    regs,                   \* ql.reg: the eight context registers
    stack,                  \* the active stack, top last
    pc,                     \* "idle", or where step() is: "dispatch" / "handler" / "done"
    idx,                    \* position of the for loop of step() in self.intrs
    exc,                    \* exception the most recent call raised, or "none"
    preTick,                \* history: the registers when the current tick began
    appended,               \* history: set_pending calls made for a number that was enabled,
                            \*          since the last tick returned
    delivered,              \* history: numbers handed to handle_interupt by the current tick
    repended,               \* history: numbers the current tick has delivered and a
                            \*          handler of it called set_pending for again
    faulted                 \* history: a nested emu_start of the current tick raised UcError

vars == <<ISER, ICER, ISPR, ICPR, raw, intrs, sysEnable, sysPending,
          regs, stack, pc, idx, exc, preTick, appended, delivered, repended, faulted>>

\* The controller's own state and the system-exception authority's, as one value
\* that the operations below take and return.
Dev == [ISER |-> ISER, ICER |-> ICER, ISPR |-> ISPR, ICPR |-> ICPR, raw |-> raw,
        intrs |-> intrs, sysEnable |-> sysEnable, sysPending |-> sysPending]

DevNext == [ISER |-> ISER', ICER |-> ICER', ISPR |-> ISPR', ICPR |-> ICPR', raw |-> raw',
            intrs |-> intrs', sysEnable |-> sysEnable', sysPending |-> sysPending']

Commit(s) ==
    /\ ISER' = s.ISER /\ ICER' = s.ICER /\ ISPR' = s.ISPR /\ ICPR' = s.ICPR
    /\ raw' = s.raw /\ intrs' = s.intrs
    /\ sysEnable' = s.sysEnable /\ sysPending' = s.sysPending

(* ---------------- system-exception authority (ql.hw.sysctrl) ---------- *)

sysctrl_enable(s, IRQn)        == [s EXCEPT !.sysEnable = @ \cup {IRQn}]
sysctrl_disable(s, IRQn)       == [s EXCEPT !.sysEnable = @ \ {IRQn}]
sysctrl_get_enable(s, IRQn)    == IF IRQn \in s.sysEnable THEN 1 ELSE 0
sysctrl_set_pending(s, IRQn)   == [s EXCEPT !.sysPending = @ \cup {IRQn}]
sysctrl_clear_pending(s, IRQn) == [s EXCEPT !.sysPending = @ \ {IRQn}]
sysctrl_get_pending(s, IRQn)   == IF IRQn \in s.sysPending THEN 1 ELSE 0

(* ------------------- enable / disable / pending ----------------------- *)

\* plane[IRQn >> OFFSET] |= 1 << (IRQn & MASK)
SetBit(plane, IRQn) ==
    [plane EXCEPT ![WordIndex(IRQn)] = U32(BitOr(@, OneShl[BitIndex(IRQn)]))]

\* plane[IRQn >> OFFSET] &= MASK ^ (1 << (IRQn & MASK))
ClearBit(plane, IRQn) ==
    [plane EXCEPT ![WordIndex(IRQn)] = U32(BitAnd(@, MaskXorShl[BitIndex(IRQn)]))]

\* (plane[IRQn >> OFFSET] >> (IRQn & MASK)) & 1
TestBit(plane, IRQn) ==
    ValOf(BitAnd(Shr(plane[WordIndex(IRQn)], BitIndex(IRQn)), OneShl[0]))

\* enable with the word index dropped: every number lands in word 0.
enable_word0(s, IRQn) ==
    IF IRQn >= 0
    THEN [s EXCEPT !.ISER = SetBit(@, BitIndex(IRQn)), !.ICER = SetBit(@, BitIndex(IRQn))]
    ELSE sysctrl_enable(s, IRQn)

enable(s, IRQn) ==
    IF IRQn >= 0
    THEN [s EXCEPT !.ISER = SetBit(@, IRQn), !.ICER = SetBit(@, IRQn)]
    ELSE sysctrl_enable(s, IRQn)

\* disable that clears the bit in the set-enable plane only.
disable_iser_only(s, IRQn) ==
    IF IRQn >= 0
    THEN [s EXCEPT !.ISER = ClearBit(@, IRQn)]
    ELSE sysctrl_disable(s, IRQn)

disable(s, IRQn) ==
    IF IRQn >= 0
    THEN [s EXCEPT !.ISER = ClearBit(@, IRQn), !.ICER = ClearBit(@, IRQn)]
    ELSE sysctrl_disable(s, IRQn)

\* get_enable without the forwarding branch: a negative number reads as disabled.
get_enable_noforward(s, IRQn) ==
    IF IRQn >= 0 THEN TestBit(s.ISER, IRQn) ELSE 0

get_enable(s, IRQn) ==
    IF IRQn >= 0 THEN TestBit(s.ISER, IRQn) ELSE sysctrl_get_enable(s, IRQn)

\* set_pending that coalesces: a number already queued is not queued again.
set_pending_dedup(s, IRQn) ==
    LET t == IF IRQn >= 0
             THEN [s EXCEPT !.ISPR = SetBit(@, IRQn), !.ICPR = SetBit(@, IRQn)]
             ELSE sysctrl_set_pending(s, IRQn)
    IN  IF get_enable(t, IRQn) # 0 /\ \A i \in 1 .. Len(t.intrs) : t.intrs[i] # IRQn
        THEN [t EXCEPT !.intrs = Append(@, IRQn)]
        ELSE t

\* set_pending without the enabled check: every call queues the number.
set_pending_always(s, IRQn) ==
    LET t == IF IRQn >= 0
             THEN [s EXCEPT !.ISPR = SetBit(@, IRQn), !.ICPR = SetBit(@, IRQn)]
             ELSE sysctrl_set_pending(s, IRQn)
    IN  [t EXCEPT !.intrs = Append(@, IRQn)]

\* set_pending with the enabled check inverted: only a disabled number is queued.
set_pending_inverted(s, IRQn) ==
    LET t == IF IRQn >= 0
             THEN [s EXCEPT !.ISPR = SetBit(@, IRQn), !.ICPR = SetBit(@, IRQn)]
             ELSE sysctrl_set_pending(s, IRQn)
    IN  IF get_enable(t, IRQn) = 0
        THEN [t EXCEPT !.intrs = Append(@, IRQn)]
        ELSE t

set_pending(s, IRQn) ==
    LET t == IF IRQn >= 0
             THEN [s EXCEPT !.ISPR = SetBit(@, IRQn), !.ICPR = SetBit(@, IRQn)]
             ELSE sysctrl_set_pending(s, IRQn)
    IN  IF get_enable(t, IRQn) # 0
        THEN [t EXCEPT !.intrs = Append(@, IRQn)]
        ELSE t

clear_pending(s, IRQn) ==
    IF IRQn >= 0
    THEN [s EXCEPT !.ISPR = ClearBit(@, IRQn), !.ICPR = ClearBit(@, IRQn)]
    ELSE sysctrl_clear_pending(s, IRQn)

get_pending(s, IRQn) ==
    IF IRQn >= 0 THEN TestBit(s.ISER, IRQn) ELSE sysctrl_get_pending(s, IRQn)

\* A priority that differs between numbers: the number itself.
get_priority_by_number(IRQn) == IRQn

get_priority(IRQn) == 0

(* --------------------------- CPU context ------------------------------ *)

reg_context == <<"xpsr", "pc", "lr", "r12", "r3", "r2", "r1", "r0">>

RegNames == {reg_context[i] : i \in 1 .. Len(reg_context)}

\* ql.arch.stack_push / stack_pop on the active stack.
stack_push(st, val) == Append(st, val)
stack_top(st)       == st[Len(st)]
stack_pop(st)       == SubSeq(st, 1, Len(st) - 1)

RECURSIVE SaveFrom(_, _, _)
SaveFrom(i, rg, st) ==
    IF i > Len(reg_context) THEN st
    ELSE SaveFrom(i + 1, rg, stack_push(st, rg[reg_context[i]]))

\* for reg in self.reg_context: push(read(reg))
save_regs(rg, st) == SaveFrom(1, rg, st)

RECURSIVE RestoreFrom(_, _, _)
RestoreFrom(i, rg, st) ==
    IF i < 1 THEN [regs |-> rg, stack |-> st]
    ELSE RestoreFrom(i - 1, [rg EXCEPT ![reg_context[i]] = stack_top(st)], stack_pop(st))

RECURSIVE RestoreForward(_, _, _)
RestoreForward(i, rg, st) ==
    IF i > Len(reg_context) THEN [regs |-> rg, stack |-> st]
    ELSE RestoreForward(i + 1, [rg EXCEPT ![reg_context[i]] = stack_top(st)], stack_pop(st))

\* restore_regs without reversed(): pops into xpsr first.
restore_regs_forward(rg, st) == RestoreForward(1, rg, st)

\* for reg in reversed(self.reg_context): write(reg, pop())
restore_regs(rg, st) == RestoreFrom(Len(reg_context), rg, st)

\* EXC_RETURN = 0xFFFFFFF9
EXC_RETURN == (0 .. 31) \ {1, 2}

\* ql.arch.boot_space: the base of the boot vector table (0x08000000).
boot_space == 134217728

\* ql.mem.read_ptr on the vector table of the loaded image: the slot at `address`
\* holds the Thumb address 2 * address + 1, so distinct slots hold distinct entries.
read_ptr(address) == U32(BitOr(Shl(BitsOf(address), 1), BitsOf(1)))

\* The register writes of handle_interupt(offset), up to the nested emu_start.
handle_interupt(rg, offset) ==
    LET address == boot_space + offset
        entry   == read_ptr(address)
    IN  [rg EXCEPT !["pc"] = entry, !["lr"] = EXC_RETURN]

\* (IRQn + 16) << 2
\* The vector offset with two-byte table entries: (IRQn + 16) << 1.
VectorOffset_shift1(IRQn) == ValOf(Shl(BitsOf(IRQn + 16), 1))

VectorOffset(IRQn) == ValOf(Shl(BitsOf(IRQn + 16), 2))

(* ------------------------ the pending queue sort ---------------------- *)

RECURSIVE InsertByKey(_, _)
\* x goes behind every element whose key is not larger (the sort is stable).
InsertByKey(sorted, x) ==
    IF sorted = <<>> THEN <<x>>
    ELSE LET last == sorted[Len(sorted)]
         IN  IF get_priority(last) <= get_priority(x)
             THEN Append(sorted, x)
             ELSE Append(InsertByKey(SubSeq(sorted, 1, Len(sorted) - 1), x), last)

RECURSIVE SortFrom(_, _, _)
SortFrom(i, seq, acc) ==
    IF i > Len(seq) THEN acc ELSE SortFrom(i + 1, seq, InsertByKey(acc, seq[i]))

\* self.intrs.sort(key=lambda x: self.get_priority(x))
sort_intrs(seq) == SortFrom(1, seq, <<>>)

(* ----------------------------- register I/O --------------------------- *)

\* self.triggers, as built by __init__: (field, handler) pairs.
triggers ==
    << [offset |-> ISER_OFS, size |-> PLANE_SIZE, func |-> "enable"],
       [offset |-> ICER_OFS, size |-> PLANE_SIZE, func |-> "disable"],
       [offset |-> ISPR_OFS, size |-> PLANE_SIZE, func |-> "set_pending"],
       [offset |-> ICPR_OFS, size |-> PLANE_SIZE, func |-> "clear_pending"] >>

\* The attributes an NVIC instance has: those __init__ assigns (ql comes from the
\* base class, through which every method reaches the emulator).
InstanceAttrs ==
    {"ql", "nvic", "IRQN_MAX", "MASK", "OFFSET", "triggers", "intrs", "reg_context"}

\* Python attribute lookup: a name the instance does not have raises AttributeError.
HasAttr(name) == name \in InstanceAttrs

\* func(IRQn) for a handler of the table.
CallHandler(func, s, IRQn) ==
    CASE func = "enable"        -> enable(s, IRQn)
      [] func = "disable"       -> disable(s, IRQn)
      [] func = "set_pending"   -> set_pending(s, IRQn)
      [] func = "clear_pending" -> clear_pending(s, IRQn)

\* self.trigger, the table write_byte iterates, on an instance that has the
\* attribute: the one table of (field, handler) pairs.
trigger == triggers

RECURSIVE TriggerBits(_, _, _, _, _)
\* for i in range(8): if (byte >> i) & 1: func(i + ofs - var.offset)
TriggerBits(i, s, var, ofs, byte) ==
    IF i >= 8 THEN s
    ELSE TriggerBits(i + 1,
                     IF BitAnd(Shr(byte, i), BitsOf(1)) # {}
                     THEN CallHandler(var.func, s, i + ofs - var.offset)
                     ELSE s,
                     var, ofs, byte)

\* The first entry of the table whose field holds ofs, 0 when there is none.
TriggerAt(ofs) ==
    LET hits == {k \in 1 .. Len(trigger) :
                    /\ trigger[k].offset <= ofs
                    /\ ofs < trigger[k].offset + trigger[k].size}
    IN  IF hits = {} THEN 0 ELSE CHOOSE k \in hits : \A j \in hits : k <= j

\* write_byte(ofs, byte). Outside the table the byte goes through
\* ctypes.memmove(dst, byte, 1), which takes the integer `byte` as the source
\* ADDRESS: what is stored is whatever lies at that address, here `copied`.
write_byte(s, ofs, byte, copied) ==
    IF TriggerAt(ofs) # 0
    THEN TriggerBits(0, s, trigger[TriggerAt(ofs)], ofs, byte)
    ELSE [s EXCEPT !.raw = [o \in DOMAIN @ \cup {ofs} |-> IF o = ofs THEN copied ELSE @[o]]]

RECURSIVE WriteFrom(_, _, _, _, _)
\* for ofs in range(offset, offset + size): write_byte(ofs, value & 0xff); value >>= 8
WriteFrom(s, ofs, end, value, copied) ==
    IF ofs >= end THEN s
    ELSE WriteFrom(write_byte(s, ofs, BitAnd(value, BitsOf(255)), copied),
                   ofs + 1, end, Shr(value, 8), copied)

\* write(offset, size, value): the exception it raises ("none" when it returns)
\* and the state it leaves. The table is looked up when the first byte is written.
write(s, offset, size, value, copied) ==
    IF size > 0 /\ ~HasAttr("trigger")
    THEN [exc |-> "AttributeError", dev |-> s]
    ELSE [exc |-> "none", dev |-> WriteFrom(s, offset, offset + size, value, copied)]

\* The plane a byte offset lies in, and the byte of the structure at an offset
\* (c_uint32 words are stored little-endian).
PlaneByte(plane, rel) ==
    BitAnd(Shr(plane[rel \div WORD_BYTES], 8 * (rel % WORD_BYTES)), BitsOf(255))

\* Outside the structure ctypes.memmove reads whatever the process has there,
\* here `foreign`.
ByteAt(s, ofs, foreign) ==
    CASE ISER_OFS <= ofs /\ ofs < ISER_OFS + PLANE_SIZE -> PlaneByte(s.ISER, ofs - ISER_OFS)
      [] ICER_OFS <= ofs /\ ofs < ICER_OFS + PLANE_SIZE -> PlaneByte(s.ICER, ofs - ICER_OFS)
      [] ISPR_OFS <= ofs /\ ofs < ISPR_OFS + PLANE_SIZE -> PlaneByte(s.ISPR, ofs - ISPR_OFS)
      [] ICPR_OFS <= ofs /\ ofs < ICPR_OFS + PLANE_SIZE -> PlaneByte(s.ICPR, ofs - ICPR_OFS)
      [] 0 <= ofs /\ ofs < NVIC_SIZE -> IF ofs \in DOMAIN s.raw THEN s.raw[ofs] ELSE {}
      [] OTHER -> foreign

RECURSIVE ReadFrom(_, _, _, _, _)
ReadFrom(s, offset, i, size, foreign) ==
    IF i >= size THEN {}
    ELSE BitOr(Shl(ByteAt(s, offset + i, foreign), 8 * i),
               ReadFrom(s, offset, i + 1, size, foreign))

\* read(offset, size): int.from_bytes(<size bytes at offset>, 'little'). It has
\* no raise and no test of offset or size: whatever the range, it returns the
\* bytes memmove copied.
read(s, offset, size, foreign) ==
    [exc |-> "none", value |-> ReadFrom(s, offset, 0, size, foreign)]

(* ------------------------------ inputs -------------------------------- *)

\* Register offsets, sizes and values the bus reads and writes with: the base of
\* each plane, bytes 1 and 3 of the set-enable plane, the active plane, two
\* places of the priority table and the software-trigger words.
IoOffsets == {ISER_OFS, ISER_OFS + 1, ICER_OFS, ISPR_OFS, ICPR_OFS, IPR_OFS + 5, STIR_OFS}
IoSizes   == {1, 4}
IoValues  == {BitsOf(5), {0, 3, 13, 31}}

FitsIn(value, size) == \A b \in value : b < 8 * size

\* What lies at the low addresses memmove may copy from.
CopiedBytes == {BitsOf(0), BitsOf(255)}

\* What lies in the process's memory beside the structure.
ForeignBytes == {BitsOf(0), BitsOf(165)}

\* Ranges [offset, offset + size) that are not wholly inside the register block:
\* behind it, across its end and in front of it.
OutOfRange == {<<NVIC_SIZE, 4>>, <<NVIC_SIZE - 2, 4>>, <<NVIC_SIZE - 1, 2>>, <<-4, 4>>}

\* What a handler may leave in the registers.
JunkWord == {1, 4, 30}

\* The registers of the interrupted program.
GuestRegs == [r \in RegNames |-> BitsOf(CHOOSE i \in 1 .. Len(reg_context) : reg_context[i] = r)]

(* ------------------------------- actions ------------------------------ *)

Init ==
    /\ ISER = ZeroPlane /\ ICER = ZeroPlane /\ ISPR = ZeroPlane /\ ICPR = ZeroPlane
    /\ raw = << >>
    /\ intrs = << >>
    /\ sysEnable = {} /\ sysPending = {}
    /\ regs = GuestRegs
    /\ stack = << >>
    /\ pc = "idle"
    /\ idx = 0
    /\ exc = "none"
    /\ preTick = GuestRegs
    /\ appended = << >>
    /\ delivered = << >>
    /\ repended = {}
    /\ faulted = FALSE

planeVars == <<ISER, ICER, ISPR, ICPR, raw, sysEnable, sysPending>>
cpuVars   == <<regs, stack, preTick>>
tickVars  == <<pc, idx, delivered, faulted>>
histVars  == <<appended, repended>>

\* The operations are called between ticks and, by whatever runs inside the
\* nested emu_start, while a handler runs; never while step() itself is running.
Callable == pc \in {"idle", "handler"}

Enable(IRQn) ==
    /\ Callable
    /\ Commit(enable(Dev, IRQn))
    /\ exc' = "none"
    /\ UNCHANGED <<cpuVars, tickVars, histVars>>

Disable(IRQn) ==
    /\ Callable
    /\ Commit(disable(Dev, IRQn))
    /\ exc' = "none"
    /\ UNCHANGED <<cpuVars, tickVars, histVars>>

SetPending(IRQn) ==
    /\ Callable
    /\ Len(set_pending(Dev, IRQn).intrs) <= MaxQueue
    /\ Commit(set_pending(Dev, IRQn))
    /\ appended' = IF get_enable(Dev, IRQn) # 0 THEN Append(appended, IRQn) ELSE appended
    /\ repended' = IF pc = "handler" /\ \E i \in 1 .. Len(delivered) : delivered[i] = IRQn
                   THEN repended \cup {IRQn}
                   ELSE repended
    /\ exc' = "none"
    /\ UNCHANGED <<cpuVars, tickVars>>

ClearPending(IRQn) ==
    /\ Callable
    /\ Commit(clear_pending(Dev, IRQn))
    /\ exc' = "none"
    /\ UNCHANGED <<cpuVars, tickVars, histVars>>

\* write(offset, size, value) from the bus, between ticks.
Write(offset, size, value) ==
    /\ pc = "idle"
    /\ FitsIn(value, size)
    /\ \E copied \in (IF HasAttr("trigger") THEN CopiedBytes ELSE {BitsOf(0)}) :
          LET r == write(Dev, offset, size, value, copied)
          IN  /\ Len(r.dev.intrs) <= MaxQueue
              /\ Commit(r.dev)
              /\ exc' = r.exc
    /\ UNCHANGED <<cpuVars, tickVars, histVars>>

\* step() on an empty queue: returns at once.
StepEmpty ==
    /\ pc = "idle"
    /\ intrs = << >>
    /\ exc' = "none"
    /\ UNCHANGED <<planeVars, intrs, cpuVars, tickVars, histVars>>

\* step() that enters the for loop without save_regs().
StepBegin_nosave ==
    /\ pc = "idle"
    /\ intrs # << >>
    /\ intrs' = sort_intrs(intrs)
    /\ preTick' = regs
    /\ pc' = "dispatch"
    /\ idx' = 1
    /\ delivered' = << >>
    /\ faulted' = FALSE
    /\ exc' = "none"
    /\ UNCHANGED <<planeVars, regs, stack, histVars>>

\* step() on a non-empty queue, up to the for loop: sort and save_regs.
StepBegin ==
    /\ pc = "idle"
    /\ intrs # << >>
    /\ intrs' = sort_intrs(intrs)
    /\ stack' = save_regs(regs, stack)
    /\ preTick' = regs
    /\ pc' = "dispatch"
    /\ idx' = 1
    /\ delivered' = << >>
    /\ faulted' = FALSE
    /\ exc' = "none"
    /\ UNCHANGED <<planeVars, regs, histVars>>

\* One turn of the for loop, up to the nested emu_start: clear_pending(IRQn),
\* then handle_interupt((IRQn + 16) << 2) redirects pc and lr.
Deliver ==
    /\ pc = "dispatch"
    /\ idx <= Len(intrs)
    /\ LET IRQn == intrs[idx]
       IN  /\ Commit(clear_pending(Dev, IRQn))
           /\ regs' = handle_interupt(regs, VectorOffset(IRQn))
           /\ delivered' = Append(delivered, IRQn)
    /\ pc' = "handler"
    /\ UNCHANGED <<stack, idx, exc, preTick, faulted, histVars>>

\* The handler, running inside emu_start, overwrites the context registers. It
\* leaves the stack pointer and the words below it as it found them (what it
\* pushes it pops), so the stack is unchanged whenever step() runs again.
HandlerClobber ==
    /\ pc = "handler"
    /\ regs' = [r \in RegNames |-> JunkWord]
    /\ UNCHANGED <<planeVars, intrs, stack, preTick, tickVars, exc, histVars>>

\* emu_start returns: the run reached EXC_RETURN.
HandlerReturn ==
    /\ pc = "handler"
    /\ regs' = [regs EXCEPT !["pc"] = EXC_RETURN]
    /\ pc' = "dispatch"
    /\ idx' = idx + 1
    /\ UNCHANGED <<planeVars, intrs, stack, preTick, delivered, faulted, exc, histVars>>

\* handle_interupt without the try/except: the UcError leaves step() through
\* the for loop, with the queue, the registers and the stack as they are.
HandlerFault_propagates ==
    /\ pc = "handler"
    /\ pc' = "idle"
    /\ idx' = 0
    /\ faulted' = TRUE
    /\ exc' = "UcError"
    /\ UNCHANGED <<planeVars, intrs, regs, stack, preTick, delivered, histVars>>

\* emu_start raises UcError, which handle_interupt swallows.
HandlerFault ==
    /\ pc = "handler"
    /\ pc' = "dispatch"
    /\ idx' = idx + 1
    /\ faulted' = TRUE
    /\ UNCHANGED <<planeVars, intrs, regs, stack, preTick, delivered, exc, histVars>>

\* clear() and restore_regs() indented into the for loop: they run after the
\* first delivery, whatever is still queued.
StepEnd_early ==
    /\ pc = "dispatch"
    /\ idx > 1
    /\ intrs' = << >>
    /\ LET r == restore_regs(regs, stack)
       IN  regs' = r.regs /\ stack' = r.stack
    /\ pc' = "done"
    /\ idx' = 0
    /\ UNCHANGED <<planeVars, preTick, delivered, faulted, exc, histVars>>

\* The for loop is exhausted: self.intrs.clear() and restore_regs().
StepEnd ==
    /\ pc = "dispatch"
    /\ idx > Len(intrs)
    /\ intrs' = << >>
    /\ LET r == restore_regs(regs, stack)
       IN  regs' = r.regs /\ stack' = r.stack
    /\ pc' = "done"
    /\ idx' = 0
    /\ UNCHANGED <<planeVars, preTick, delivered, faulted, exc, histVars>>

\* step() has returned to the scheduler that called it; the histories of the
\* tick are dropped.
StepReturn ==
    /\ pc = "done"
    /\ pc' = "idle"
    /\ preTick' = regs
    /\ delivered' = << >>
    /\ appended' = << >>
    /\ repended' = {}
    /\ faulted' = FALSE
    /\ UNCHANGED <<planeVars, intrs, regs, stack, idx, exc>>

Next ==
    \/ \E IRQn \in IrqInputs : Enable(IRQn)
    \/ \E IRQn \in IrqInputs : Disable(IRQn)
    \/ \E IRQn \in IrqInputs : SetPending(IRQn)
    \/ \E IRQn \in IrqInputs : ClearPending(IRQn)
    \/ \E offset \in IoOffsets, size \in IoSizes, value \in IoValues : Write(offset, size, value)
    \/ StepEmpty
    \/ StepBegin
    \/ Deliver
    \/ HandlerClobber
    \/ HandlerReturn
    \/ HandlerFault
    \/ StepEnd
    \/ StepReturn

Spec == Init /\ [][Next]_vars

\* The interrupt numbers of the runs that are followed to their end: one whose
\* bit lies below bit 5 of its word and one whose bit lies above.
LiveSample == {0, 255}

\* The calls and the ticks, on LiveSample; the handlers' register writes and the
\* bus writes, which touch neither the queue nor the planes' bits, are left out.
LiveNext ==
    \/ \E IRQn \in LiveSample : Enable(IRQn)
    \/ \E IRQn \in LiveSample : Disable(IRQn)
    \/ \E IRQn \in LiveSample : SetPending(IRQn)
    \/ \E IRQn \in LiveSample : ClearPending(IRQn)
    \/ StepEmpty
    \/ StepBegin
    \/ Deliver
    \/ HandlerReturn
    \/ HandlerFault
    \/ StepEnd
    \/ StepReturn

\* The scheduler calls step() on every emulation step and every nested run ends,
\* by reaching EXC_RETURN or by an engine error: a tick that can begin does, and
\* a tick that has begun runs to its return.
FairSpec ==
    /\ Init
    /\ [][LiveNext]_vars
    /\ WF_vars(StepBegin)
    /\ WF_vars(Deliver)
    /\ WF_vars(HandlerReturn \/ HandlerFault)
    /\ WF_vars(StepEnd)
    /\ WF_vars(StepReturn)

(* ------------------------------ properties --------------------------- *)

\* Interrupt numbers the operations are probed with in every reachable state:
\* in the first, the second and the last word of a plane, the first and the last
\* bit and the bits on either side of position 5.
IrqProbe == {w * 32 + b : w \in {0, 1, PLANE_WORDS - 1}, b \in {0, 4, 5, 31}}

Occurs(seq, n) == \E i \in 1 .. Len(seq) : seq[i] = n
Count(seq, n)  == Cardinality({i \in 1 .. Len(seq) : seq[i] = n})

\* C1: from every reachable state and for every probed interrupt number n,
\* enable(n) followed by get_enable(n) yields 1 (true).
C1_EnableThenGetEnable ==
    \A n \in IrqProbe : get_enable(enable(Dev, n), n) = 1

\* enable has acted on numbers of two different words, one of them the last.
C1_Witness ==
    /\ get_enable(Dev, 255) = 1 /\ get_enable(Dev, 5) = 1
    /\ ISER[7] = {31} /\ ICER[7] = {31}

\* C2: from every reachable state and for every probed interrupt number n,
\* disable(n) followed by get_enable(n) yields 0 (false).
C2_DisableThenGetEnable ==
    \A n \in IrqProbe : get_enable(disable(Dev, n), n) = 0

\* C3: from every reachable state and for every probed n, whatever its enable
\* state: set_pending(n) then get_pending(n) yields 1, and clear_pending(n) then
\* get_pending(n) yields 0.
C3_PendingRoundTrip ==
    \A n \in IrqProbe :
        /\ get_pending(set_pending(Dev, n), n) = 1
        /\ get_pending(clear_pending(Dev, n), n) = 0

\* C4: set_pending(n) appends exactly one n to the end of the queue when
\* get_enable(n) is true at the call and leaves the queue alone otherwise; there
\* is no deduplication: when a tick returns, every number has been delivered as
\* many times as it was appended.
C4_SetPendingAppendsIffEnabled ==
    /\ \A n \in IrqProbe \cup SysSample :
          set_pending(Dev, n).intrs =
              IF get_enable(Dev, n) # 0 THEN Append(intrs, n) ELSE intrs
    /\ pc = "done" => \A n \in IrqInputs : Count(delivered, n) = Count(appended, n)

\* A tick has returned after delivering the same number twice.
C4_Witness ==
    pc = "done" /\ \E n \in IrqInputs : delivered = <<n, n>> /\ appended = <<n, n>>

\* C5: when a tick on a non-empty queue returns, it has delivered the queued
\* numbers in the order in which they were appended (the stable order under the
\* constant priority), and the queue is empty.
C5_TickDeliversInAppendOrder ==
    pc = "done" => delivered = appended /\ delivered # << >> /\ intrs = << >>

\* A tick has returned after delivering 5 before 0, as they were appended.
C5_Witness ==
    pc = "done" /\ delivered = <<5, 0>> /\ intrs = << >>

\* C6: when a tick returns, every number n >= 0 it delivered, and that no
\* handler pended again, has bit n clear in the set-pending and the clear-pending
\* plane.
C6_DeliveredIsNotPending ==
    pc = "done" =>
        \A n \in IrqSample :
            Occurs(delivered, n) /\ n \notin repended =>
                TestBit(ISPR, n) = 0 /\ TestBit(ICPR, n) = 0

\* C7: a tick on a non-empty queue pushes xpsr, pc, lr, r12, r3, r2, r1, r0 in
\* that order, and when it returns the eight registers hold their pre-tick values
\* and the stack is as before, whatever the handlers and the redirection wrote.
C7_ContextRestored ==
    /\ pc \in {"dispatch", "handler"} =>
          stack = <<preTick["xpsr"], preTick["pc"], preTick["lr"], preTick["r12"],
                    preTick["r3"], preTick["r2"], preTick["r1"], preTick["r0"]>>
    /\ pc = "done" => regs = preTick /\ stack = << >>

\* A tick that delivered two interrupts has returned with the context restored.
C7_Witness ==
    pc = "done" /\ Len(delivered) = 2 /\ regs = preTick /\ regs = GuestRegs

\* Bytes written in the register-write properties.
ByteProbe == {BitsOf(5), BitsOf(129)}

\* C8: with every interrupt disabled, a 1-byte write of b at the base of the
\* set-enable plane leaves get_enable(i) true exactly for the i in 0..7 whose bit
\* is set in b.
C8_ByteWriteEnables ==
    ISER = ZeroPlane =>
        \A b \in ByteProbe :
            LET r == write(Dev, ISER_OFS, 1, b, BitsOf(0))
            IN  \A i \in 0 .. 7 : (get_enable(r.dev, i) = 1) <=> (i \in b)

RECURSIVE ClaimedBits(_, _, _, _, _)
\* The handler of a plane called, for each set bit i of the byte at ofs, with
\* the number i + (ofs - range_base) * 8.
ClaimedBits(i, s, var, ofs, byte) ==
    IF i >= 8 THEN s
    ELSE ClaimedBits(i + 1,
                     IF i \in byte
                     THEN CallHandler(var.func, s, i + (ofs - var.offset) * 8)
                     ELSE s,
                     var, ofs, byte)

\* C9: a byte written at offset ofs inside one of the four planes invokes the
\* plane's handler for each set bit i with the number i + (ofs - range_base) * 8,
\* and nothing else.
C9_TriggerNumbering ==
    \A k \in 1 .. Len(triggers), rel \in {0, 1}, b \in ByteProbe :
        LET var == triggers[k]
            ofs == var.offset + rel
            r   == write(Dev, ofs, 1, b, BitsOf(0))
        IN  r.exc = "none" /\ r.dev = ClaimedBits(0, Dev, var, ofs, b)

\* C10: a write of a value that fits, at an offset inside the priority table or
\* the software-trigger words, is read back by read at the same offset and size,
\* raises nothing, and leaves the four planes and the queue unchanged.
C10_RawRoundTrip ==
    \A ofs \in {IPR_OFS + 5, STIR_OFS}, size \in IoSizes, value \in IoValues,
       copied \in CopiedBytes :
        FitsIn(value, size) =>
            LET r == write(Dev, ofs, size, value, copied)
            IN  /\ r.exc = "none"
                /\ read(r.dev, ofs, size, BitsOf(0)).value = value
                /\ r.dev.ISER = ISER /\ r.dev.ICER = ICER
                /\ r.dev.ISPR = ISPR /\ r.dev.ICPR = ICPR
                /\ r.dev.intrs = intrs

\* C11: in every reachable state the set-enable plane equals the clear-enable
\* plane and the set-pending plane equals the clear-pending plane, word for word.
C11_PlanesMirrored ==
    \A w \in 0 .. PLANE_WORDS - 1 : ISER[w] = ICER[w] /\ ISPR[w] = ICPR[w]

\* A tick has delivered 255 with something enabled in word 0: both pairs of
\* planes hold bits, after set and clear operations on them.
C11_Witness ==
    /\ pc = "done" /\ Occurs(delivered, 255)
    /\ ISPR[PLANE_WORDS - 1] = {31} /\ ICPR[PLANE_WORDS - 1] = {31}
    /\ ISER[0] # {} /\ ICER[0] # {}

\* The four bit-planes of two controller states are the same.
SamePlanes(s, t) ==
    s.ISER = t.ISER /\ s.ICER = t.ICER /\ s.ISPR = t.ISPR /\ s.ICPR = t.ICPR

\* C12: for a negative n each of the six operations does what the operation of
\* the same name of the system-exception authority does and leaves the four
\* bit-planes unchanged; set_pending(n) then appends n to the queue exactly
\* when the authority reports n enabled.
C12_NegativeForwards ==
    \A n \in SysSample :
        /\ enable(Dev, n) = sysctrl_enable(Dev, n)
        /\ disable(Dev, n) = sysctrl_disable(Dev, n)
        /\ clear_pending(Dev, n) = sysctrl_clear_pending(Dev, n)
        /\ get_enable(Dev, n) = sysctrl_get_enable(Dev, n)
        /\ get_pending(Dev, n) = sysctrl_get_pending(Dev, n)
        /\ LET t == sysctrl_set_pending(Dev, n)
           IN  set_pending(Dev, n) =
                  IF sysctrl_get_enable(t, n) = 1
                  THEN [t EXCEPT !.intrs = Append(intrs, n)]
                  ELSE t
        /\ \A r \in {enable(Dev, n), disable(Dev, n), set_pending(Dev, n),
                     clear_pending(Dev, n)} : SamePlanes(r, Dev)

\* The system exception -1 is enabled, pending and queued, with bits set in the
\* planes that the forwarded operations have to leave alone.
C12_Witness ==
    /\ -1 \in sysEnable /\ -1 \in sysPending /\ Occurs(intrs, -1)
    /\ ISER[0] # {} /\ ISPR[0] # {}

\* C13: once a nested run of a tick has raised an engine error, no error leaves
\* step(): the tick goes on delivering the queue in order, and when it returns
\* everything appended was delivered, the queue is empty and the registers and
\* the stack are as before the tick.
C13_FaultAbsorbed ==
    faulted =>
        /\ pc \in {"dispatch", "handler", "done"}
        /\ exc = "none"
        /\ pc \in {"dispatch", "handler"} => delivered = SubSeq(intrs, 1, Len(delivered))
        /\ pc = "done" =>
              delivered = appended /\ intrs = << >> /\ regs = preTick /\ stack = << >>

\* A tick in which a nested run raised has delivered both queued interrupts and
\* returned with the context restored.
C13_Witness ==
    pc = "done" /\ faulted /\ delivered = <<5, 255>> /\ intrs = << >> /\ regs = preTick

\* C14: a read or a write whose range is not wholly inside the register block
\* raises a bounds-violation error and leaves the controller unchanged.
C14_OutOfRangeIsBoundsError ==
    \A rng \in OutOfRange, foreign \in ForeignBytes, value \in IoValues :
        /\ read(Dev, rng[1], rng[2], foreign).exc = "BoundsError"
        /\ write(Dev, rng[1], rng[2], value, foreign).exc = "BoundsError"
        /\ write(Dev, rng[1], rng[2], value, foreign).dev = Dev

\* C15: within a tick the eight registers are on the stack before pc or lr is
\* written for any delivery; the stack is popped only in the step that ends the
\* tick, when every queue entry has been delivered, and that step clears the
\* queue; a tick on an empty queue changes no plane, queue, register or stack.
C15_TickOrdering ==
    /\ [](pc = "dispatch" /\ delivered = << >> =>
            regs = preTick /\ stack = save_regs(preTick, << >>))
    /\ [][Len(stack') < Len(stack) =>
            pc = "dispatch" /\ pc' = "done" /\ delivered = intrs /\ intrs' = << >>]_vars
    /\ [][StepEmpty => UNCHANGED <<planeVars, intrs, regs, stack, pc>>]_vars

\* A tick has saved the context, delivered 0 and then 255, cleared the queue and
\* popped the context.
C15_Witness ==
    pc = "done" /\ delivered = <<0, 255>> /\ stack = << >> /\ intrs = << >>

\* C16: for every delivered n, negative ones included, the nested run starts
\* with pc = the pointer stored at boot_space + (n + 16) * 4 and lr = 0xFFFFFFF9
\* (all 32 bits but bits 1 and 2), and a run that returns stopped at 0xFFFFFFF9.
C16_VectorEntry ==
    [][/\ pc = "dispatch" /\ pc' = "handler" =>
             /\ regs'["pc"] = read_ptr(boot_space + (intrs[idx] + 16) * 4)
             /\ regs'["lr"] = (0 .. 31) \ {1, 2}
       /\ HandlerReturn => regs'["pc"] = (0 .. 31) \ {1, 2}]_vars

\* The handler of system exception -1 is about to run from the pointer stored
\* in slot 15 of the vector table.
C16_Witness ==
    /\ pc = "handler" /\ delivered = <<-1>>
    /\ regs["pc"] = read_ptr(boot_space + 60) /\ regs["lr"] = EXC_RETURN

\* C17: enable(n), disable(n), set_pending(n) and clear_pending(n), for n in
\* 0 .. 255, leave the enable and the pending bit of every other m as they are;
\* enable and disable leave the pending planes unchanged, set_pending and
\* clear_pending the enable planes.
C17_OnlyBitNChanges ==
    \A n \in IrqProbe :
        /\ \A r \in {enable(Dev, n), disable(Dev, n), set_pending(Dev, n),
                     clear_pending(Dev, n)} :
              \A m \in IrqProbe \ {n} :
                  /\ TestBit(r.ISER, m) = TestBit(ISER, m)
                  /\ TestBit(r.ICER, m) = TestBit(ICER, m)
                  /\ TestBit(r.ISPR, m) = TestBit(ISPR, m)
                  /\ TestBit(r.ICPR, m) = TestBit(ICPR, m)
        /\ \A r \in {enable(Dev, n), disable(Dev, n)} : r.ISPR = ISPR /\ r.ICPR = ICPR
        /\ \A r \in {set_pending(Dev, n), clear_pending(Dev, n)} :
              r.ISER = ISER /\ r.ICER = ICER

\* The pending bit of IRQn as the controller stores it: its bit of the
\* set-pending plane, or what the system-exception authority holds.
PendingBit(IRQn) ==
    IF IRQn >= 0 THEN TestBit(ISPR, IRQn) ELSE sysctrl_get_pending(Dev, IRQn)

\* step() is handing IRQn to its handler.
Delivering(IRQn) ==
    pc = "handler" /\ delivered # << >> /\ delivered[Len(delivered)] = IRQn

\* C18: whenever n in 0 .. 255 is both pending and enabled, in whichever order
\* set_pending(n) and enable(n) were called, and ticks keep occurring with
\* handlers that end, n is eventually delivered.
C18_PendingEnabledIsDelivered ==
    \A n \in LiveSample :
        (PendingBit(n) = 1 /\ get_enable(Dev, n) = 1) ~> Delivering(n)

\* C18, amended: whenever set_pending(n) was called while n was enabled, and
\* ticks keep occurring with handlers that end, n is eventually delivered.
C18_PendedWhileEnabledIsDelivered ==
    \A n \in LiveSample :
        (pc = "idle" /\ Occurs(appended, n)) ~> Delivering(n)

\* 255 was pended while enabled, behind 0, and the tick is delivering it.
C18_Witness ==
    Delivering(255) /\ appended = <<0, 255>> /\ delivered = <<0, 255>>

\* C19: every interrupt a tick delivers is enabled and pending when the tick
\* starts delivering it, whatever was called since the set_pending that queued it.
C19_DeliveredIsEnabledAndPending ==
    pc = "dispatch" /\ idx <= Len(intrs) =>
        get_enable(Dev, intrs[idx]) = 1 /\ PendingBit(intrs[idx]) = 1

\* C19, amended: every interrupt a tick delivers was queued by a set_pending
\* call made while it was enabled; the deliveries of a tick are, in order, the
\* first of those calls since the last tick returned.
C19_DeliveredWasEnabledWhenPended ==
    /\ Len(delivered) <= Len(appended)
    /\ \A i \in 1 .. Len(delivered) : delivered[i] = appended[i]

\* 0 was pended while enabled, then disabled, and the tick is delivering it
\* with its enable bit clear.
C19_Witness ==
    Delivering(0) /\ appended = <<0>> /\ TestBit(ISER, 0) = 0 /\ TestBit(ICER, 0) = 0

\* C20: the queue loses entries only when every entry has been delivered, those
\* a handler appended during the tick included: the tick delivers the queue
\* front to back, an entry appended by a handler is reached by the same for
\* loop, and only the step that finds nothing undelivered clears the queue;
\* with handlers that end and a queue that stops growing the tick reaches it.
C20_NoEntryLost ==
    /\ pc \in {"dispatch", "handler"} ~> pc = "done"
    /\ [](pc \in {"dispatch", "handler"} =>
            /\ Len(delivered) <= Len(intrs)
            /\ \A i \in 1 .. Len(delivered) : intrs[i] = delivered[i])
    /\ [][Len(intrs') < Len(intrs) => delivered = intrs /\ intrs' = << >>]_vars
    /\ [][pc = "handler" /\ pc' = "dispatch" /\ Len(delivered) < Len(intrs) =>
            idx' <= Len(intrs') /\ intrs'[idx'] = intrs[Len(delivered) + 1]]_vars

\* The handler of 0 pended 0 again; the same tick delivered the new entry and
\* has cleared the queue.
C20_Witness ==
    pc = "done" /\ repended = {0} /\ delivered = <<0, 0>> /\ intrs = << >>

====
